---- MODULE Spec2Model ----
(***************************************************************************)
(* Model of the payroll department program (src/лаб3с3.cpp).               *)
(*                                                                         *)
(* The registry PayrollDepartment keeps a vector of work types; each work  *)
(* type holds a name, a base pay and a bonus strategy.  The three public   *)
(* operations addWorkType, calculateAveragePay and printAll are modelled   *)
(* as operators over the vector, computed in the order the code computes   *)
(* them, and wrapped in actions that record the call, what it threw, what  *)
(* it returned and what it wrote to cout / cerr.  The menu loop of main is *)
(* modelled by a second specification, MainSpec.                           *)
(*                                                                         *)
(* A C++ double is modelled as an exact rational [num, den] in lowest      *)
(* terms.  All inputs of the model are finite real numbers; each one that  *)
(* enters the arithmetic (100, 200, 1000000, 50, 100) is exactly           *)
(* representable in binary64, as are the products computed from them.      *)
(***************************************************************************)
EXTENDS Integers, Sequences, FiniteSets, TLC

VARIABLES
    workTypes,  \* PayrollDepartment::workTypes, the vector of work types
    call,       \* the last operation called on the registry, and the name given to it
    thrown,     \* the exception that left the last call (NoException if none)
    returned,   \* the value the last call returned
    cout,       \* the lines the last call wrote to cout
    cerr,       \* whether the last call wrote the long-name warning to cerr
    pc,         \* main: "menu" while the loop runs, "exit" after the break
    choice,     \* main: the last menu choice read
    shown       \* main: the message main wrote after the last choice

vars == <<workTypes, call, thrown, returned, cout, cerr, pc, choice, shown>>

---------------------------------------------------------------------------
(* Rational arithmetic standing for double arithmetic.                     *)

Abs(n) == IF n < 0 THEN -n ELSE n

RECURSIVE GCD(_, _)
GCD(a, b) == IF b = 0 THEN a ELSE GCD(b, a % b)

\* the double with value n/d, d > 0, in lowest terms
Rat(n, d) ==
    LET g == GCD(Abs(n), d)
    IN  [num |-> n \div g, den |-> d \div g]

Dbl(n) == Rat(n, 1)

RLess(a, b) == a.num * b.den < b.num * a.den
RLeq(a, b) == a.num * b.den <= b.num * a.den
RAdd(a, b) == Rat(a.num * b.den + b.num * a.den, a.den * b.den)
\* a * b, cross-reduced before multiplying
RMul(a, b) ==
    LET g1 == GCD(Abs(a.num), b.den)
        g2 == GCD(Abs(b.num), a.den)
    IN  Rat((a.num \div g1) * (b.num \div g2), (a.den \div g2) * (b.den \div g1))
\* a / b for b > 0
RDiv(a, b) == RMul(a, [num |-> b.den, den |-> b.num])

---------------------------------------------------------------------------
(* Program constants.                                                      *)

MaxBasePay == 1000000
MaxBonusPercent == 100
LongNameSize == 50

---------------------------------------------------------------------------
(* Inputs.                                                                 *)

\* most entries the model lets the registry grow to
MaxEntries == 2

Name50 == "welding and assembly of steel frames (night shift)"
Name50Upper == "Welding and assembly of steel frames (night shift)"
Name51 == "welding and assembly of steel frames (night shifts)"

Names == {"", Name50, Name50Upper, Name51}
BasePays == {Dbl(-5), Dbl(0), Dbl(100), Dbl(200), Dbl(1000000), Dbl(1000001)}
BonusPercents == {Dbl(-1), Dbl(0), Dbl(50), Dbl(100), Rat(1000001, 10000)}

---------------------------------------------------------------------------
(* Exceptions: the class thrown and the text what() returns.               *)

NoException == [class |-> "none", what |-> ""]
InvalidRateException(msg) ==
    [class |-> "InvalidRateException", what |-> "Invalid rate: " \o msg]
DuplicateWorkTypeException(msg) ==
    [class |-> "DuplicateWorkTypeException", what |-> "Duplicate work type: " \o msg]
EmptyWorkListException(msg) ==
    [class |-> "EmptyWorkListException", what |-> "Work list is empty: " \o msg]

\* the outcome of an expression that may throw
Value(v) == [ok |-> TRUE, value |-> v]
Throw(e) == [ok |-> FALSE, exception |-> e]

---------------------------------------------------------------------------
(* Bonus strategies.                                                       *)

NoBonusStrategy == [kind |-> "NoBonusStrategy"]

PercentageBonusStrategy(percent) ==
    IF RLess(percent, Dbl(0))
    THEN Throw(InvalidRateException("bonus percent must be >= 0"))
    ELSE IF RLess(Dbl(MaxBonusPercent), percent)
    THEN Throw(InvalidRateException("bonus percent cannot exceed 100%"))
    ELSE Value([kind |-> "PercentageBonusStrategy", bonusPercent |-> percent])

\* mutant: the bonus alone, without the base pay
computePay_BonusOnly(strategy, basePay) ==
    IF strategy.kind = "NoBonusStrategy"
    THEN basePay
    ELSE RMul(basePay, RDiv(strategy.bonusPercent, Dbl(100)))

computePay(strategy, basePay) ==
    IF strategy.kind = "NoBonusStrategy"
    THEN basePay
    ELSE RMul(basePay, RAdd(Dbl(1), RDiv(strategy.bonusPercent, Dbl(100))))

---------------------------------------------------------------------------
(* Work types.                                                             *)

NullStrategy == [kind |-> "null"]

\* mutant: base pay tested with < 0, so a base pay of 0 is accepted
WorkTypeBase_ZeroPayAccepted(name, basePay, strategy) ==
    IF name = ""
    THEN Throw(InvalidRateException("work type name must not be empty"))
    ELSE IF RLess(basePay, Dbl(0))
    THEN Throw(InvalidRateException("base pay must be > 0"))
    ELSE IF RLess(Dbl(MaxBasePay), basePay)
    THEN Throw(InvalidRateException("base pay cannot exceed 1,000,000"))
    ELSE IF strategy = NullStrategy
    THEN Throw(InvalidRateException("bonus strategy must not be null"))
    ELSE Value([name |-> name, basePay |-> basePay, bonusStrategy |-> strategy])

WorkTypeBase(name, basePay, strategy) ==
    IF name = ""
    THEN Throw(InvalidRateException("work type name must not be empty"))
    ELSE IF RLeq(basePay, Dbl(0))
    THEN Throw(InvalidRateException("base pay must be > 0"))
    ELSE IF RLess(Dbl(MaxBasePay), basePay)
    THEN Throw(InvalidRateException("base pay cannot exceed 1,000,000"))
    ELSE IF strategy = NullStrategy
    THEN Throw(InvalidRateException("bonus strategy must not be null"))
    ELSE Value([name |-> name, basePay |-> basePay, bonusStrategy |-> strategy])

getName(w) == w.name
getBasePay(w) == w.basePay
getFinalPay(w) == computePay(w.bonusStrategy, w.basePay)

---------------------------------------------------------------------------
(* PayrollDepartment.                                                      *)

\* mutant: the search skips the first entry
existsWorkType_SkipsFirst(wts, name) ==
    \E i \in 2..Len(wts) : getName(wts[i]) = name

existsWorkType(wts, name) ==
    \E i \in 1..Len(wts) : getName(wts[i]) = name

\* mutant: the warning is given from 50 characters on
longNameWarning_AtFifty(name) == Len(name) >= LongNameSize

\* whether addWorkType writes its warning to cerr
longNameWarning(name) == Len(name) > LongNameSize

\* the strategy addWorkType chooses for a bonus percent
selectStrategy(bonusPercent) ==
    IF bonusPercent = Dbl(0)
    THEN Value(NoBonusStrategy)
    ELSE IF RLess(Dbl(MaxBonusPercent), bonusPercent)
    THEN Throw(InvalidRateException("bonus percent cannot exceed 100%"))
    ELSE PercentageBonusStrategy(bonusPercent)

\* mutant: the new entry is put in front
push_back_AtFront(wts, wt) == <<wt>> \o wts

\* workTypes.push_back(wt)
push_back(wts, wt) == Append(wts, wt)

\* mutant: the entry is stored before its name and base pay are validated
addWorkType_StoresBeforeValidating(wts, name, basePay, bonusPercent) ==
    LET warned == longNameWarning(name)
        failed(e) == [workTypes |-> wts, thrown |-> e, cerr |-> warned]
    IN  IF existsWorkType(wts, name)
        THEN failed(DuplicateWorkTypeException("work type '" \o name \o "' already exists"))
        ELSE LET strategy == selectStrategy(bonusPercent)
             IN  IF ~strategy.ok
                 THEN failed(strategy.exception)
                 ELSE LET wt == WorkTypeBase(name, basePay, strategy.value)
                          stored == [name |-> name, basePay |-> basePay,
                                     bonusStrategy |-> strategy.value]
                      IN  [workTypes |-> push_back(wts, stored),
                           thrown |-> IF wt.ok THEN NoException ELSE wt.exception,
                           cerr |-> warned]

\* mutant: the bonus percent is validated before the duplicate check
addWorkType_ValidatesFirst(wts, name, basePay, bonusPercent) ==
    LET warned == longNameWarning(name)
        failed(e) == [workTypes |-> wts, thrown |-> e, cerr |-> warned]
        strategy == selectStrategy(bonusPercent)
    IN  IF ~strategy.ok
        THEN failed(strategy.exception)
        ELSE IF existsWorkType(wts, name)
        THEN failed(DuplicateWorkTypeException("work type '" \o name \o "' already exists"))
        ELSE LET wt == WorkTypeBase(name, basePay, strategy.value)
             IN  IF ~wt.ok
                 THEN failed(wt.exception)
                 ELSE [workTypes |-> push_back(wts, wt.value),
                       thrown |-> NoException,
                       cerr |-> warned]

\* the result of addWorkType on the vector wts: the vector afterwards, the
\* exception that left the call, and whether the warning went to cerr
addWorkType(wts, name, basePay, bonusPercent) ==
    LET warned == longNameWarning(name)
        failed(e) == [workTypes |-> wts, thrown |-> e, cerr |-> warned]
    IN  IF existsWorkType(wts, name)
        THEN failed(DuplicateWorkTypeException("work type '" \o name \o "' already exists"))
        ELSE LET strategy == selectStrategy(bonusPercent)
             IN  IF ~strategy.ok
                 THEN failed(strategy.exception)
                 ELSE LET wt == WorkTypeBase(name, basePay, strategy.value)
                      IN  IF ~wt.ok
                          THEN failed(wt.exception)
                          ELSE [workTypes |-> push_back(wts, wt.value),
                                thrown |-> NoException,
                                cerr |-> warned]

RECURSIVE SumFinalPay(_, _)
\* the loop of calculateAveragePay: sum after the first n entries
SumFinalPay(wts, n) ==
    IF n = 0 THEN Dbl(0)
    ELSE RAdd(SumFinalPay(wts, n - 1), getFinalPay(wts[n]))

\* mutant: a registry of one entry is taken for empty
calculateAveragePay_NeedsTwo(wts) ==
    IF Len(wts) <= 1
    THEN Throw(EmptyWorkListException("cannot calculate average"))
    ELSE Value(RDiv(SumFinalPay(wts, Len(wts)), Dbl(Len(wts))))

calculateAveragePay(wts) ==
    IF Len(wts) = 0
    THEN Throw(EmptyWorkListException("cannot calculate average"))
    ELSE Value(RDiv(SumFinalPay(wts, Len(wts)), Dbl(Len(wts))))

EmptyListLine == [line |-> "list is empty"]
HeaderLine == [line |-> "header"]
EntryLine(w) ==
    [line |-> "entry", name |-> getName(w), basePay |-> getBasePay(w),
     finalPay |-> getFinalPay(w)]

\* mutant: the loop leaves out the first entry
printAll_SkipsFirst(wts) ==
    IF Len(wts) = 0
    THEN <<EmptyListLine>>
    ELSE <<HeaderLine>> \o [i \in 1..(Len(wts) - 1) |-> EntryLine(wts[i + 1])]

\* the lines printAll writes to cout; a line of an entry is modelled by the
\* three values streamed into it
printAll(wts) ==
    IF Len(wts) = 0
    THEN <<EmptyListLine>>
    ELSE <<HeaderLine>> \o [i \in 1..Len(wts) |-> EntryLine(wts[i])]

-------------------------------------------------------------------------------------------------------------------------------------------------
(* The registry driven through its public operations, with any arguments.  *)

NoCall == [op |-> "none", name |-> ""]
NoValue == [none |-> TRUE]
NothingShown == [kind |-> "none"]

Init ==
    /\ workTypes = <<>>
    /\ call = NoCall
    /\ thrown = NoException
    /\ returned = NoValue
    /\ cout = <<>>
    /\ cerr = FALSE
    /\ pc = "menu"
    /\ choice = -1
    /\ shown = NothingShown

AddArgs == Names \X BasePays \X BonusPercents

AddWorkType ==
    \E args \in AddArgs :
        LET r == addWorkType(workTypes, args[1], args[2], args[3])
        IN  /\ Len(r.workTypes) <= MaxEntries
            /\ workTypes' = r.workTypes
            /\ call' = [op |-> "addWorkType", name |-> args[1]]
            /\ thrown' = r.thrown
            /\ returned' = NoValue
            /\ cout' = <<>>
            /\ cerr' = r.cerr
            /\ UNCHANGED <<pc, choice, shown>>

CalculateAveragePay ==
    LET r == calculateAveragePay(workTypes)
    IN  /\ call' = [op |-> "calculateAveragePay", name |-> ""]
        /\ thrown' = IF r.ok THEN NoException ELSE r.exception
        /\ returned' = IF r.ok THEN r.value ELSE NoValue
        /\ cout' = <<>>
        /\ cerr' = FALSE
        /\ UNCHANGED <<workTypes, pc, choice, shown>>

PrintAll ==
    /\ call' = [op |-> "printAll", name |-> ""]
    /\ thrown' = NoException
    /\ returned' = NoValue
    /\ cout' = printAll(workTypes)
    /\ cerr' = FALSE
    /\ UNCHANGED <<workTypes, pc, choice, shown>>

Next == AddWorkType \/ CalculateAveragePay \/ PrintAll

Spec == Init /\ [][Next]_vars

---------------------------------------------------------------------------
(* main: the menu loop.                                                    *)

\* the values the input functions of main return: they prompt again until
\* the line read passes their test.  The names of the model carry no
\* leading or trailing blanks, so trimming leaves them as they are.
inputNonEmptyString == {s \in Names : s # ""}
inputPositiveDouble ==
    {num \in BasePays : ~RLeq(num, Dbl(0)) /\ ~RLess(Dbl(MaxBasePay), num)}
inputNonNegativeDouble ==
    {num \in BonusPercents : ~RLess(num, Dbl(0)) /\ ~RLess(Dbl(MaxBonusPercent), num)}
inputMenuChoice == 0..3

IsPayrollException(e) ==
    e.class \in {"InvalidRateException", "DuplicateWorkTypeException",
                 "EmptyWorkListException"}

\* the handlers of main's try block
caught(e) ==
    IF IsPayrollException(e)
    THEN [kind |-> "payroll error", what |-> e.what]
    ELSE [kind |-> "unexpected error", what |-> e.what]

\* mutant: an error of the average ends the loop
mainLoop_ErrorEndsSession(wts, ch, name, basePay, bonusPercent) ==
    IF ch = 0
    THEN [workTypes |-> wts, call |-> NoCall, thrown |-> NoException,
          returned |-> NoValue, cout |-> <<>>, cerr |-> FALSE,
          shown |-> [kind |-> "exit"], pc |-> "exit"]
    ELSE IF ch = 1
    THEN LET r == addWorkType(wts, name, basePay, bonusPercent)
         IN  [workTypes |-> r.workTypes,
              call |-> [op |-> "addWorkType", name |-> name],
              thrown |-> r.thrown, returned |-> NoValue, cout |-> <<>>,
              cerr |-> r.cerr,
              shown |-> IF r.thrown = NoException
                        THEN [kind |-> "added"]
                        ELSE caught(r.thrown),
              pc |-> "menu"]
    ELSE IF ch = 2
    THEN [workTypes |-> wts, call |-> [op |-> "printAll", name |-> ""],
          thrown |-> NoException, returned |-> NoValue,
          cout |-> printAll(wts), cerr |-> FALSE,
          shown |-> NothingShown, pc |-> "menu"]
    ELSE LET r == calculateAveragePay(wts)
         IN  [workTypes |-> wts,
              call |-> [op |-> "calculateAveragePay", name |-> ""],
              thrown |-> IF r.ok THEN NoException ELSE r.exception,
              returned |-> IF r.ok THEN r.value ELSE NoValue,
              cout |-> <<>>, cerr |-> FALSE,
              shown |-> IF r.ok
                        THEN [kind |-> "average", value |-> r.value]
                        ELSE caught(r.exception),
              pc |-> IF r.ok THEN "menu" ELSE "exit"]

\* one pass of the loop body for a menu choice and the values read for it:
\* the registry afterwards, what the core call did, what main wrote, and
\* where main goes next
mainLoop(wts, ch, name, basePay, bonusPercent) ==
    IF ch = 0
    THEN [workTypes |-> wts, call |-> NoCall, thrown |-> NoException,
          returned |-> NoValue, cout |-> <<>>, cerr |-> FALSE,
          shown |-> [kind |-> "exit"], pc |-> "exit"]
    ELSE IF ch = 1
    THEN LET r == addWorkType(wts, name, basePay, bonusPercent)
         IN  [workTypes |-> r.workTypes,
              call |-> [op |-> "addWorkType", name |-> name],
              thrown |-> r.thrown, returned |-> NoValue, cout |-> <<>>,
              cerr |-> r.cerr,
              shown |-> IF r.thrown = NoException
                        THEN [kind |-> "added"]
                        ELSE caught(r.thrown),
              pc |-> "menu"]
    ELSE IF ch = 2
    THEN [workTypes |-> wts, call |-> [op |-> "printAll", name |-> ""],
          thrown |-> NoException, returned |-> NoValue,
          cout |-> printAll(wts), cerr |-> FALSE,
          shown |-> NothingShown, pc |-> "menu"]
    ELSE LET r == calculateAveragePay(wts)
         IN  [workTypes |-> wts,
              call |-> [op |-> "calculateAveragePay", name |-> ""],
              thrown |-> IF r.ok THEN NoException ELSE r.exception,
              returned |-> IF r.ok THEN r.value ELSE NoValue,
              cout |-> <<>>, cerr |-> FALSE,
              shown |-> IF r.ok
                        THEN [kind |-> "average", value |-> r.value]
                        ELSE caught(r.exception),
              pc |-> "menu"]

MainStep(ch, name, basePay, bonusPercent) ==
    LET m == mainLoop(workTypes, ch, name, basePay, bonusPercent)
    IN  /\ pc = "menu"
        /\ Len(m.workTypes) <= MaxEntries
        /\ workTypes' = m.workTypes
        /\ call' = m.call
        /\ thrown' = m.thrown
        /\ returned' = m.returned
        /\ cout' = m.cout
        /\ cerr' = m.cerr
        /\ shown' = m.shown
        /\ pc' = m.pc
        /\ choice' = ch

MainExit == MainStep(0, "", Dbl(0), Dbl(0))

MainAdd ==
    \E name \in inputNonEmptyString, basePay \in inputPositiveDouble,
       bonusPercent \in inputNonNegativeDouble :
        MainStep(1, name, basePay, bonusPercent)

MainPrint == MainStep(2, "", Dbl(0), Dbl(0))

MainAverage == MainStep(3, "", Dbl(0), Dbl(0))

MainNext == MainExit \/ MainAdd \/ MainPrint \/ MainAverage

MainSpec == Init /\ [][MainNext]_vars

---------------------------------------------------------------------------
(* Vocabulary of the properties.                                           *)

Stored == 1..Len(workTypes)

IsAdd(c) == c.op = "addWorkType"
Failed(e) == e.class # "none"

\* the bonus percent an entry was stored with (0 for the no-bonus strategy)
BonusPercentOf(w) ==
    IF w.bonusStrategy.kind = "NoBonusStrategy" THEN Dbl(0)
    ELSE w.bonusStrategy.bonusPercent

\* f = p * (1 + b/100) over the rationals, by cross-multiplication
IsPayWithBonus(f, p, b) ==
    f.num * p.den * b.den * 100 = f.den * p.num * (100 * b.den + b.num)

\* what the specification says of the arguments that addWorkType rejects
RejectedArgs(name, basePay, bonusPercent) ==
    \/ name = ""
    \/ basePay.num <= 0
    \/ basePay.num > MaxBasePay * basePay.den
    \/ bonusPercent.num < 0
    \/ bonusPercent.num > MaxBonusPercent * bonusPercent.den

RECURSIVE TotalFinalPay(_)
TotalFinalPay(wts) ==
    IF wts = <<>> THEN Dbl(0)
    ELSE RAdd(getFinalPay(Head(wts)), TotalFinalPay(Tail(wts)))

IsEntryLine(l) == l.line = "entry"

---------------------------------------------------------------------------
(* C1: after any sequence of addWorkType, calculateAveragePay and printAll *)
(* calls on a registry that starts empty, no two stored entries have the   *)
(* same name, names being compared exactly (case-sensitively).             *)

C1_NamesUnique ==
    \A i, j \in Stored : i # j => getName(workTypes[i]) # getName(workTypes[j])

\* two names that differ only in case are both stored, and a second add of
\* one of them has just been refused
C1_Witness ==
    /\ Len(workTypes) = 2
    /\ {getName(workTypes[1]), getName(workTypes[2])} = {Name50, Name50Upper}
    /\ IsAdd(call)
    /\ thrown.class = "DuplicateWorkTypeException"

---------------------------------------------------------------------------
(* C2: a call that fails - addWorkType with DuplicateWorkType or           *)
(* InvalidRate, calculateAveragePay with EmptyWorkList - leaves the        *)
(* sequence of entries exactly as it was before the call.                  *)

C2_FailureLeavesRegistry ==
    [][Failed(thrown') => workTypes' = workTypes]_vars

\* a stored name was added again and refused; the registry holds one entry
C2_Witness ==
    /\ Len(workTypes) = 1
    /\ IsAdd(call)
    /\ call.name = getName(workTypes[1])
    /\ thrown.class = "DuplicateWorkTypeException"

---------------------------------------------------------------------------
(* C3: the duplicate-name check comes first: an addWorkType whose name is  *)
(* stored fails with DuplicateWorkType whatever basePay and bonusPercent   *)
(* are, and InvalidRate is only ever reported for a name not stored.       *)

C3_DuplicateCheckedFirst ==
    /\ [][IsAdd(call') =>
            /\ existsWorkType(workTypes, call'.name)
                  => thrown'.class = "DuplicateWorkTypeException"
            /\ thrown'.class = "InvalidRateException"
                  => ~existsWorkType(workTypes, call'.name)]_vars
    /\ [](\A args \in AddArgs :
            existsWorkType(workTypes, args[1]) =>
                addWorkType(workTypes, args[1], args[2], args[3]).thrown.class
                    = "DuplicateWorkTypeException")

\* the name of the second entry was added again and refused
C3_Witness ==
    /\ Len(workTypes) = 2
    /\ IsAdd(call)
    /\ call.name = getName(workTypes[2])
    /\ thrown.class = "DuplicateWorkTypeException"

---------------------------------------------------------------------------
(* C4: for a name not stored, addWorkType fails with InvalidRate exactly   *)
(* when the name is empty, or basePay <= 0, or basePay > 1,000,000, or     *)
(* bonusPercent < 0, or bonusPercent > 100, and succeeds otherwise; so     *)
(* every stored entry has a non-empty name and 0 < basePay <= 1,000,000.   *)

C4_InvalidRateExactly ==
    /\ \A args \in AddArgs :
          ~existsWorkType(workTypes, args[1]) =>
              LET r == addWorkType(workTypes, args[1], args[2], args[3])
              IN  IF RejectedArgs(args[1], args[2], args[3])
                  THEN r.thrown.class = "InvalidRateException"
                  ELSE /\ r.thrown = NoException
                       /\ Len(r.workTypes) = Len(workTypes) + 1
    /\ \A i \in Stored :
          /\ getName(workTypes[i]) # ""
          /\ getBasePay(workTypes[i]).num > 0
          /\ getBasePay(workTypes[i]).num
                <= MaxBasePay * getBasePay(workTypes[i]).den
    /\ IsAdd(call) /\ ~Failed(thrown) => call.name # ""

\* the boundary values 1,000,000 and 100% are stored, and an add with an
\* empty name has just been refused with InvalidRate
C4_Witness ==
    /\ Len(workTypes) = 1
    /\ getBasePay(workTypes[1]) = Dbl(MaxBasePay)
    /\ BonusPercentOf(workTypes[1]) = Dbl(MaxBonusPercent)
    /\ IsAdd(call)
    /\ call.name = ""
    /\ thrown.class = "InvalidRateException"

---------------------------------------------------------------------------
(* C5: the entry stored by a successful addWorkType(name, basePay,         *)
(* bonusPercent) has that name and that basePay, its finalPay is basePay   *)
(* when bonusPercent = 0 and basePay * (1 + bonusPercent/100) otherwise,   *)
(* unrounded, and every later read of its finalPay gives the same value.   *)

C5_FinalPay ==
    /\ [](\A args \in AddArgs :
            LET r == addWorkType(workTypes, args[1], args[2], args[3])
                w == r.workTypes[Len(r.workTypes)]
            IN  ~Failed(r.thrown) =>
                    /\ getName(w) = args[1]
                    /\ getBasePay(w) = args[2]
                    /\ args[3] = Dbl(0) => getFinalPay(w) = args[2]
                    /\ IsPayWithBonus(getFinalPay(w), args[2], args[3]))
    /\ [](\A i \in Stored :
            IsPayWithBonus(getFinalPay(workTypes[i]), getBasePay(workTypes[i]),
                           BonusPercentOf(workTypes[i])))
    /\ [][\A i \in Stored :
            /\ i <= Len(workTypes')
            /\ getFinalPay(workTypes'[i]) = getFinalPay(workTypes[i])
            /\ BonusPercentOf(workTypes'[i]) = BonusPercentOf(workTypes[i])]_vars
    /\ [][IsAdd(call') /\ ~Failed(thrown') =>
            getName(workTypes'[Len(workTypes')]) = call'.name]_vars

\* an entry of 200 at 50% is stored and printAll has just read its final
\* pay as 300
C5_Witness ==
    /\ call.op = "printAll"
    /\ Len(workTypes) = 1
    /\ getBasePay(workTypes[1]) = Dbl(200)
    /\ BonusPercentOf(workTypes[1]) = Dbl(50)
    /\ cout[2].finalPay = Dbl(300)

---------------------------------------------------------------------------
(* C6: calculateAveragePay fails with EmptyWorkList exactly when the       *)
(* registry is empty; otherwise it returns the sum of the final pays       *)
(* divided by the number of entries, unrounded - with one entry that       *)
(* entry's final pay, with 100 at 0% and 200 at 50% the value 200 - and it *)
(* leaves the registry as it was.                                          *)

C6_AveragePay ==
    [][call'.op = "calculateAveragePay" =>
          /\ workTypes' = workTypes
          /\ Len(workTypes) = 0 <=> thrown'.class = "EmptyWorkListException"
          /\ Len(workTypes) = 0 => returned' = NoValue
          /\ Len(workTypes) > 0 =>
                /\ thrown' = NoException
                /\ RMul(returned', Dbl(Len(workTypes))) = TotalFinalPay(workTypes)
          /\ Len(workTypes) = 1 => returned' = getFinalPay(workTypes[1])
          /\ ( /\ Len(workTypes) = 2
               /\ getBasePay(workTypes[1]) = Dbl(100)
               /\ BonusPercentOf(workTypes[1]) = Dbl(0)
               /\ getBasePay(workTypes[2]) = Dbl(200)
               /\ BonusPercentOf(workTypes[2]) = Dbl(50) )
             => returned' = Dbl(200)]_vars

\* the average of 100 at 0% and 200 at 50% has just been returned
C6_Witness ==
    /\ call.op = "calculateAveragePay"
    /\ Len(workTypes) = 2
    /\ getBasePay(workTypes[1]) = Dbl(100)
    /\ workTypes[1].bonusStrategy = NoBonusStrategy
    /\ getBasePay(workTypes[2]) = Dbl(200)
    /\ BonusPercentOf(workTypes[2]) = Dbl(50)
    /\ thrown = NoException
    /\ returned = Dbl(200)

---------------------------------------------------------------------------
(* C7: the registry is append-only: in every step the sequence before the  *)
(* step is a prefix of the sequence after it, it grows by exactly one      *)
(* entry, at the end, in a successful addWorkType and in no other step.    *)

C7_AppendOnly ==
    [][/\ Len(workTypes') >= Len(workTypes)
       /\ SubSeq(workTypes', 1, Len(workTypes)) = workTypes
       /\ IF IsAdd(call') /\ ~Failed(thrown')
          THEN /\ Len(workTypes') = Len(workTypes) + 1
               /\ getName(workTypes'[Len(workTypes')]) = call'.name
          ELSE workTypes' = workTypes]_vars

\* a second entry has just been appended behind the first
C7_Witness ==
    /\ Len(workTypes) = 2
    /\ IsAdd(call)
    /\ thrown = NoException
    /\ call.name = getName(workTypes[2])
    /\ call.name # getName(workTypes[1])

---------------------------------------------------------------------------
(* C8: printAll never fails and never changes the registry; on an empty    *)
(* registry it writes the empty indication and nothing else; otherwise it  *)
(* writes exactly one (name, basePay, finalPay) line per stored entry, in  *)
(* insertion order, each with the values the entry was inserted with.      *)

C8_PrintAll ==
    [][call'.op = "printAll" =>
          LET entries == SelectSeq(cout', IsEntryLine)
          IN  /\ thrown' = NoException
              /\ workTypes' = workTypes
              /\ Len(workTypes) = 0 => cout' = <<EmptyListLine>>
              /\ Len(workTypes) > 0 => EmptyListLine \notin {cout'[k] : k \in 1..Len(cout')}
              /\ Len(entries) = Len(workTypes)
              /\ \A i \in Stored :
                    /\ entries[i].name = getName(workTypes[i])
                    /\ entries[i].basePay = getBasePay(workTypes[i])
                    /\ IsPayWithBonus(entries[i].finalPay, getBasePay(workTypes[i]),
                                      BonusPercentOf(workTypes[i]))]_vars

\* two entries are stored and printAll has just listed them in order
C8_Witness ==
    /\ call.op = "printAll"
    /\ Len(workTypes) = 2
    /\ Len(cout) = 3
    /\ cout[2].name = getName(workTypes[1])
    /\ cout[3].name = getName(workTypes[2])

---------------------------------------------------------------------------
(* C9: addWorkType writes the advisory to cerr exactly when the name is    *)
(* longer than 50 characters - a name of exactly 50 gets none - and the    *)
(* advisory does not block the insertion: a long name not yet stored, with *)
(* valid basePay and bonusPercent, is appended as a short one would be.    *)

C9_LongNameAdvisory ==
    /\ [][IsAdd(call') => (cerr' <=> Len(call'.name) > LongNameSize)]_vars
    /\ [][IsAdd(call') /\ call'.name = Name50 => ~cerr']_vars
    /\ [](\A args \in AddArgs :
            LET long == addWorkType(workTypes, Name51, args[2], args[3])
                short == addWorkType(workTypes, Name50, args[2], args[3])
            IN  ( /\ ~existsWorkType(workTypes, Name51)
                  /\ ~RejectedArgs(Name51, args[2], args[3]) )
                => /\ long.cerr
                   /\ long.thrown = NoException
                   /\ Len(long.workTypes) = Len(workTypes) + 1
                   /\ getName(long.workTypes[Len(long.workTypes)]) = Name51
                   /\ ~existsWorkType(workTypes, Name50) =>
                         /\ ~short.cerr
                         /\ short.thrown = NoException
                         /\ [long.workTypes[Len(long.workTypes)] EXCEPT !.name = Name50]
                               = short.workTypes[Len(short.workTypes)])

\* the name of 51 characters has just been appended, with the advisory
C9_Witness ==
    /\ IsAdd(call)
    /\ call.name = Name51
    /\ cerr
    /\ thrown = NoException
    /\ Len(workTypes) > 0
    /\ getName(workTypes[Len(workTypes)]) = Name51

---------------------------------------------------------------------------
(* C10: in the menu loop a failed core operation is caught and reported,   *)
(* main returns to the menu with the registry unchanged, the session ends  *)
(* only on menu choice 0, and the success message of an add is shown only  *)
(* when the add appended an entry.  (Checked under MainSpec.)              *)

C10_MenuLoop ==
    [][/\ Failed(thrown') =>
             /\ pc' = "menu"
             /\ workTypes' = workTypes
             /\ shown'.kind = "payroll error"
             /\ shown'.what = thrown'.what
       /\ pc' = "exit" <=> choice' = 0
       /\ shown'.kind = "added" =>
             /\ IsAdd(call')
             /\ Len(workTypes') = Len(workTypes) + 1
             /\ getName(workTypes'[Len(workTypes')]) = call'.name
       /\ IsAdd(call') /\ ~Failed(thrown') => shown'.kind = "added"]_vars

\* a duplicate add was refused in the menu loop, the error was shown and
\* main is back at the menu
C10_Witness ==
    /\ choice = 1
    /\ thrown.class = "DuplicateWorkTypeException"
    /\ shown.kind = "payroll error"
    /\ pc = "menu"
    /\ Len(workTypes) = 1

====
